---- MODULE Spec2Model ----
(***************************************************************************)
(* Model of the accumulation engine of teams_chat_scraper.py               *)
(* (class TeamsCollector): the scroll-driven harvest loop                  *)
(* scroll_to_load_all_messages_with_accumulation, the one-shot             *)
(* extract_and_accumulate_only_new_messages, the message fingerprint       *)
(* create_message_hash, the persisted hash file, and the batch loop of     *)
(* process_all_chats with extract_messages_from_chat and save_chat_data.   *)
(* The images of a message are modelled by the src of each match of the    *)
(* image selectors, the download cache self.downloaded_images and the      *)
(* answers of the network to the downloads.                                *)
(*                                                                         *)
(* Strings are sequences of one-character strings.  The browser (the       *)
(* retrieval port) is the environment: every listing, every element read   *)
(* and every scroll is a nondeterministic choice.                          *)
(***************************************************************************)
EXTENDS Integers, Sequences, FiniteSets, Bags, TLC

VARIABLES
    chats,                         \* the runs of this session, in order
    chat_index,                    \* position of the current run in chats
    chat_data,                     \* self.chat_data
    run_log,                       \* what process_all_chats did with each chat
    loop_fault,                    \* a statement of the scroll loop raised
    store_failed,                  \* the hash file could not be read / written
    download_images,               \* self.download_images
    downloaded_images,             \* self.downloaded_images: hashes of the urls saved
    current_chat_name,             \* self.current_chat_name
    fetches,                       \* the downloads asked of the network so far
    image_extractions,             \* hashes whose images were extracted in this run
    mode,                          \* which method runs: "full" or "onlynew"
    port,                          \* behaviour of the browser in this run
    pc,                            \* position of the run
    accumulated_messages,          \* self.accumulated_messages, in insertion order
    message_hashes,                \* self.message_hashes
    scroll_attempts,               \* local of the scroll loop
    consecutive_no_new_messages,   \* local of the scroll loop
    current_messages,              \* local: the listing of the last harvest
    newly_found,                   \* value returned by the last harvest
    known_hashes,                  \* local of the only-new method
    new_hashes,                    \* local of the only-new method
    hash_file,                     \* lines of <chat>_hashes.txt
    final_messages,                \* list returned by the scroll loop
    returned,                      \* value returned by the only-new method
    harvest_rounds,                \* number of harvests made in this run
    reveal_calls,                  \* number of perform_enhanced_scroll_strategies calls
    every_round_new,               \* every harvest so far inserted a record
    last_call,                     \* outcome of the last browser call
    previous_run                   \* the only-new run right before this one, when it
                                   \* was of the same conversation

batch_vars == <<chats, chat_index, chat_data, run_log, download_images, previous_run>>

image_vars == <<downloaded_images, fetches>>

vars == <<chats, chat_index, chat_data, run_log, loop_fault, store_failed,
          download_images, downloaded_images, current_chat_name, fetches,
          image_extractions, mode, port, pc, accumulated_messages, message_hashes, scroll_attempts,
          consecutive_no_new_messages, current_messages, newly_found,
          known_hashes, new_hashes, hash_file, final_messages, returned,
          harvest_rounds, reveal_calls, every_round_new, last_call, previous_run>>

(***************************************************************************)
(* Bounds of the model and constants of the program                        *)
(***************************************************************************)
MaxListing == 2

MaxChats == 2

max_scroll_attempts == 100

\* line 852
max_consecutive_no_new == 3

PrefixLen == 100

NoId == -1

(***************************************************************************)
(* Strings                                                                 *)
(***************************************************************************)
RECURSIVE Rep(_, _)
Rep(c, n) == IF n = 0 THEN <<>> ELSE <<c>> \o Rep(c, n - 1)

Whitespace == {" ", "\n"}

RECURSIVE lstrip(_)
lstrip(s) == IF s # <<>> /\ Head(s) \in Whitespace THEN lstrip(Tail(s)) ELSE s

RECURSIVE rstrip(_)
rstrip(s) ==
    IF s # <<>> /\ s[Len(s)] \in Whitespace THEN rstrip(SubSeq(s, 1, Len(s) - 1)) ELSE s

strip(s) == rstrip(lstrip(s))

Prefix(s, n) == SubSeq(s, 1, IF Len(s) < n THEN Len(s) ELSE n)

Unknown == <<"U", "n", "k", "n", "o", "w", "n">>

(***************************************************************************)
(* Message elements (handles) as the browser presents them                 *)
(***************************************************************************)
Elem(text_raises, text, p_raises, p_text, has_time, time_text, has_author, author_text) ==
    [text_raises |-> text_raises, text |-> text,
     p_raises |-> p_raises, p_text |-> p_text,
     has_time |-> has_time, time_text |-> time_text,
     has_author |-> has_author, author_text |-> author_text,
     images |-> <<>>]

\* the element with img children: the src of every match of the selectors of
\* lines 953-961, in the order the selectors are tried; "" is a match
\* without a src attribute
Pic(h, srcs) == [h EXCEPT !.images = srcs]

NoSrc == ""

Msg(author, time, text) == Elem(FALSE, text, FALSE, <<>>, TRUE, time, TRUE, author)

hA == Msg(<<"a">>, <<"1">>, <<"h", "i">>)

hApad == Msg(<<"a">>, <<"1">>, <<" ", "h", "i", "\n">>)

hL1 == Msg(<<"a">>, <<"2">>, Rep("x", PrefixLen) \o <<"y">>)

hL2 == Msg(<<"a">>, <<"2">>, Rep("x", PrefixLen) \o <<"z">>)

hBlank == Msg(<<"a">>, <<"1">>, <<" ", "\n">>)

hBad == Elem(TRUE, <<>>, TRUE, <<>>, TRUE, <<"1">>, TRUE, <<"a">>)

hP == Elem(TRUE, <<>>, FALSE, <<"h", "i">>, FALSE, <<>>, FALSE, <<>>)

\* a message with two pictures, one without src, the first of them matched
\* by a second selector too
hPics == Pic(Msg(<<"a">>, <<"3">>, <<"p">>), <<"u1", NoSrc, "u2", "u1">>)

\* two elements whose author and timestamp differ and run together to the
\* same string "a:b:c"
hC1 == Msg(<<"a", ":", "b">>, <<"c">>, <<"h", "i">>)

hC2 == Msg(<<"a">>, <<"b", ":", "c">>, <<"h", "i">>)

Handles == {hA, hApad, hL1, hL2, hBlank, hBad, hP}

Fresh(n) == Msg(<<"a">>, <<ToString(n)>>, <<"m">>)

\* the elements of the unconstrained browser
AnyHandles == {hA, hL1, hL2, hBlank, hBad}

ListingsOver(H) == UNION {[1..n -> H] : n \in 0..MaxListing}

AllListings == ListingsOver(Handles)

Scenario == << <<hA, hP>>, <<hL1, hA, hP>>, <<hL1, hA, hP>>, <<hL1, hA, hP>>, <<hL1, hA, hP>> >>

PortKinds == {"any", "fixed", "endless", "scenario", "brief", "collision", "gallery"}

Port(kind, listing, issued) == [kind |-> kind, listing |-> listing, issued |-> issued]

\* the listings the browser may show at the next harvest
ListingChoices(p, rounds) ==
    CASE p.kind = "any" -> ListingsOver(AnyHandles)
      [] p.kind = "fixed" -> IF rounds = 0 THEN AllListings ELSE {p.listing}
      [] p.kind = "endless" -> {<<>>, <<Fresh(p.issued + 1)>>}
      [] p.kind = "scenario" ->
            {Scenario[IF rounds + 1 < Len(Scenario) THEN rounds + 1 ELSE Len(Scenario)]}
      [] p.kind = "brief" -> {<<>>, <<hA>>}
      [] p.kind = "collision" -> ListingsOver({hC1, hC2})
      [] p.kind = "gallery" -> {<<hPics, hA>>}

\* find_elements may raise only for the ports that are not scripted
ListingMayFail(p) == p.kind \in {"any", "endless"}

\* the ports under which a statement outside the handlers of the loop or a
\* click on the chat may raise
FaultMayHappen(p) == p.kind \in {"any", "brief"}

\* the ports under which a write of the export files may raise
SaveMayFail(p) == p.kind \in {"any", "brief", "endless"}


(***************************************************************************)
(* Reading one element: lines 798-822 (and 69-93)                          *)
(***************************************************************************)
\* innerText, else the text of the <p> child, else the element is skipped
ReadText(h) ==
    IF ~h.text_raises THEN [skipped |-> FALSE, text |-> h.text]
    ELSE IF ~h.p_raises THEN [skipped |-> FALSE, text |-> h.p_text]
    ELSE [skipped |-> TRUE, text |-> <<>>]

IsBlankNever(text_content) == FALSE

\* not text_content or len(text_content.strip()) == 0
IsBlank(text_content) == text_content = <<>> \/ Len(strip(text_content)) = 0

ReadTimestamp(h) == IF h.has_time THEN h.time_text ELSE Unknown

ReadAuthor(h) == IF h.has_author THEN h.author_text ELSE Unknown

\* hashlib.md5(...).hexdigest(): a digest, taken to be collision free
md5(message_string) == [md5 |-> message_string]

create_message_hash_full_content(content, author, timestamp) ==
    md5(author \o <<":">> \o timestamp \o <<":">> \o content)

create_message_hash_escaped(content, author, timestamp) ==
    md5(<<author, timestamp, Prefix(content, PrefixLen)>>)

\* lines 789-791: md5 of f"{author}:{timestamp}:{content[:100]}"
create_message_hash(content, author, timestamp) ==
    md5(author \o <<":">> \o timestamp \o <<":">> \o Prefix(content, PrefixLen))

\* the fingerprint the code computes for a readable, non blank element
HashOf(h) == create_message_hash(strip(ReadText(h).text), ReadAuthor(h), ReadTimestamp(h))

Skipped(h) == ReadText(h).skipped \/ IsBlank(ReadText(h).text)

message_data(h, chat_name) ==
    [chat_name |-> chat_name,
     message_hash |-> HashOf(h),
     author |-> ReadAuthor(h),
     timestamp |-> ReadTimestamp(h),
     content |-> strip(ReadText(h).text),
     images |-> <<>>,
     message_id |-> NoId]

Keys(acc) == {acc[i].message_hash : i \in 1..Len(acc)}

clear_keeps(acc) == acc

\* self.accumulated_messages.clear()
clear(acc) == <<>>

DictSetAppends(acc, rec) == Append(acc, rec)

\* dict[key] = value on an insertion-ordered dict
DictSet(acc, rec) ==
    IF rec.message_hash \in Keys(acc)
    THEN [i \in 1..Len(acc) |->
             IF acc[i].message_hash = rec.message_hash THEN rec ELSE acc[i]]
    ELSE Append(acc, rec)

(***************************************************************************)
(* The browser calls                                                       *)
(***************************************************************************)
RawListings(p, rounds) ==
    {[raises |-> FALSE, elems |-> l] : l \in ListingChoices(p, rounds)}
    \cup (IF ListingMayFail(p) THEN {[raises |-> TRUE, elems |-> <<>>]} ELSE {})

ScrollOutcomes == [raises : BOOLEAN, stuck : BOOLEAN]

\* the outcomes of a scroll the port may produce
ScrollChoices(p) ==
    IF p.kind \in {"brief", "gallery"} THEN {o \in ScrollOutcomes : ~o.raises /\ o.stuck}
    ELSE ScrollOutcomes

get_current_messages_propagates(raw) ==
    IF raw.raises THEN [raised |-> TRUE, messages |-> <<>>]
    ELSE [raised |-> FALSE, messages |-> raw.elems]

\* every selector is tried inside try/except: a failing find_elements gives []
get_current_messages(raw) ==
    IF raw.raises THEN [raised |-> FALSE, messages |-> <<>>]
    ELSE [raised |-> FALSE, messages |-> raw.elems]

\* scroll_up catches its own exception and returns the stuck flag it has
scroll_up(outcome) == [raised |-> FALSE, stuck |-> outcome.stuck]

perform_enhanced_scroll_strategies_propagates(outcome) ==
    [raised |-> outcome.raises \/ outcome.stuck]

\* the strategy runs inside try/except and its result is dropped
perform_enhanced_scroll_strategies(outcome) == [raised |-> scroll_up(outcome).raised]

(***************************************************************************)
(* extract_and_accumulate_current_messages, lines 793-846                  *)
(***************************************************************************)
\* lines 827-829 (and 99-101): the images and attachments of the element are
\* extracted when self.download_images is set
ExtractionCalls(h) == IF download_images THEN <<HashOf(h)>> ELSE <<>>

\* local_path of a descriptor without a file
NoPath == [dir |-> "None", file |-> "None"]

\* os.path.join(self.images_dir, safe_chat_name, f"{filename_hash}.{ext}")
FilePath(dir, img_url) == [dir |-> dir, file |-> img_url]

\* what the network answers to the next download that is asked of it
NextAnswer(answers) == IF answers = <<>> THEN FALSE ELSE Head(answers)

download_image_refetches(img_url, dir, cache, answer) ==
    IF answer
    THEN [local_path |-> FilePath(dir, img_url), cache |-> cache \cup {md5(img_url)},
          asked |-> TRUE]
    ELSE [local_path |-> NoPath, cache |-> cache, asked |-> TRUE]

\* lines 1007-1027 with 1029-1161: None for a url already saved, else the
\* file is fetched and written and its hash added, or None when that fails
download_image(img_url, dir, cache, answer) ==
    IF md5(img_url) \in cache
    THEN [local_path |-> NoPath, cache |-> cache, asked |-> FALSE]
    ELSE IF answer
         THEN [local_path |-> FilePath(dir, img_url), cache |-> cache \cup {md5(img_url)},
               asked |-> TRUE]
         ELSE [local_path |-> NoPath, cache |-> cache, asked |-> TRUE]

\* lines 996-1001
download_status(local_path) == IF local_path = NoPath THEN "failed" ELSE "success"

image_info(img_src, local_path, status) ==
    [src |-> img_src, local_path |-> local_path, download_status |-> status]

\* the value of an expression, computed once
Once(value_set) == CHOOSE v \in value_set : TRUE

\* lines 975-1005, on the images gathered so far
process_image_element(img_src, images_so_far) ==
    LET Result(st, d) ==
            [st EXCEPT
                !.images = Append(@, image_info(img_src, d.local_path,
                                                download_status(d.local_path))),
                !.cache = d.cache,
                !.answers = IF d.asked /\ @ # <<>> THEN Tail(@) ELSE @,
                !.fetched = IF d.asked
                            THEN Append(@, [chat |-> chat_index, url |-> img_src,
                                            ok |-> d.local_path # NoPath])
                            ELSE @]
        Processed(st) ==
            IF img_src = NoSrc THEN st
            ELSE IF ~download_images
                 THEN [st EXCEPT !.images =
                                    Append(@, image_info(img_src, NoPath, "pending"))]
                 ELSE Once({Result(st, d) :
                               d \in {download_image(img_src, st.dir, st.cache,
                                                     NextAnswer(st.answers))}})
    IN  Once({Processed(st) : st \in {images_so_far}})

RECURSIVE ProcessImagesStopsAtFailure(_, _)
ProcessImagesStopsAtFailure(srcs, st) ==
    IF srcs = <<>> THEN st
    ELSE LET nxt == process_image_element(Head(srcs), st)
         IN  IF nxt.images # st.images /\ nxt.images[Len(nxt.images)].local_path = NoPath
             THEN nxt
             ELSE ProcessImagesStopsAtFailure(Tail(srcs), nxt)

\* for selector in image_selectors: for img_elem in img_elements
RECURSIVE ProcessImages(_, _)
ProcessImages(srcs, st) ==
    IF srcs = <<>> THEN st
    ELSE ProcessImages(Tail(srcs), process_image_element(Head(srcs), st))

\* lines 951-973: every match of every selector is processed
extract_images_from_message(h, cache, answers, dir) ==
    ProcessImages(h.images, [images |-> <<>>, cache |-> cache, answers |-> answers,
                             fetched |-> <<>>, dir |-> dir])

\* images = [] unless self.download_images
ImagesOf(h, st) ==
    IF download_images
    THEN extract_images_from_message(h, st.cache, st.answers, current_chat_name)
    ELSE [images |-> <<>>, cache |-> st.cache, answers |-> st.answers,
          fetched |-> <<>>, dir |-> current_chat_name]

\* lines 830-842 (and 102-114): the record is stored with its images
Store(st, h) ==
    LET Result(x) ==
            [st EXCEPT !.acc = DictSet(st.acc, [message_data(h, st.chat_name)
                                                   EXCEPT !.images = x.images]),
                       !.extracted = st.extracted \o ExtractionCalls(h),
                       !.n = st.n + 1,
                       !.cache = x.cache,
                       !.answers = x.answers,
                       !.fetched = st.fetched \o x.fetched]
    IN  Once({Result(x) : x \in {ImagesOf(h, st)}})

NotSeenAlways(k, hashes) == TRUE

\* if msg_hash not in self.message_hashes
NotSeen(k, hashes) == k \notin hashes

AccumulateElement(harvest_so_far, h) ==
    LET Result(st) ==
            IF Skipped(h) THEN st
            ELSE IF NotSeen(HashOf(h), st.hashes)
                 THEN [Store(st, h) EXCEPT !.hashes = st.hashes \cup {HashOf(h)}]
                 ELSE st
    IN  Once({Result(st) : st \in {harvest_so_far}})

RECURSIVE AccumulateAllStopsAtFailure(_, _)
AccumulateAllStopsAtFailure(msgs, st) ==
    IF msgs = <<>> \/ ReadText(Head(msgs)).skipped THEN st
    ELSE AccumulateAllStopsAtFailure(Tail(msgs), AccumulateElement(st, Head(msgs)))

\* for element in current_messages: try ... except Exception: continue
RECURSIVE AccumulateAll(_, _)
AccumulateAll(msgs, st) ==
    IF msgs = <<>> THEN st ELSE AccumulateAll(Tail(msgs), AccumulateElement(st, Head(msgs)))

\* the locals of a harvest and the fields it reads
HarvestState(acc, hashes, chat_name, answers) ==
    [acc |-> acc, hashes |-> hashes, new |-> {}, n |-> 0, extracted |-> <<>>,
     chat_name |-> chat_name, cache |-> downloaded_images, answers |-> answers,
     fetched |-> <<>>]

extract_and_accumulate_current_messages(msgs, acc, hashes, chat_name, answers) ==
    AccumulateAll(msgs, HarvestState(acc, hashes, chat_name, answers))

\* the number of images with a src among the elements of a listing
RECURSIVE SrcCount(_)
SrcCount(msgs) ==
    IF msgs = <<>> THEN 0
    ELSE Cardinality({i \in 1..Len(Head(msgs).images) : Head(msgs).images[i] # NoSrc})
             + SrcCount(Tail(msgs))

\* the answers the network may give to the downloads of one harvest
AnswerChoices(msgs) == [1..SrcCount(msgs) -> BOOLEAN]

(***************************************************************************)
(* The loop of scroll_to_load_all_messages_with_accumulation, 859-873      *)
(***************************************************************************)
NextConsecutiveNoReset(c, n) == IF n = 0 THEN c + 1 ELSE c

NextConsecutive(c, n) == IF n = 0 THEN c + 1 ELSE 0

BreaksOneEarly(c, n) == n = 0 /\ c + 1 >= max_consecutive_no_new

BreaksLate(c, n) == n = 0 /\ c > max_consecutive_no_new

\* the break of line 868, evaluated on the updated counter
Breaks(c, n) == n = 0 /\ c >= max_consecutive_no_new

NextStepSkipsScroll(c, n) ==
    IF Breaks(c, n) THEN "final" ELSE IF n = 0 THEN "harvest" ELSE "reveal"

\* lines 863-871: after a harvest the loop breaks or goes on to the scroll
NextStep(c, n) == IF Breaks(c, n) THEN "final" ELSE "reveal"

LoopContinuesOneMore(s) == s <= max_scroll_attempts

\* the while condition of line 859
LoopContinues(s) == s < max_scroll_attempts

NextAttemptsByTwo(s) == s + 2

\* scroll_attempts += 1 of line 872
NextAttempts(s) == s + 1

RECURSIVE values_newest_first(_)
values_newest_first(acc) ==
    IF acc = <<>> THEN <<>> ELSE values_newest_first(Tail(acc)) \o <<Head(acc)>>

\* list(self.accumulated_messages.values()): the records in insertion order
values(acc) == acc

NumberFromOne(acc) == [i \in 1..Len(acc) |-> [acc[i] EXCEPT !.message_id = i]]

\* for i, msg in enumerate(final_messages): msg['message_id'] = i
Number(acc) == [i \in 1..Len(acc) |-> [acc[i] EXCEPT !.message_id = i - 1]]

(***************************************************************************)
(* The hash file and extract_and_accumulate_only_new_messages, 30-120      *)
(***************************************************************************)
load_chat_hashes_keeps(file, read_ok) == BagToSet(file)

\* a missing or unreadable file gives the empty set
load_chat_hashes(file, read_ok) == IF read_ok THEN BagToSet(file) ELSE {}

save_chat_hashes_rewrites(file, written) == SetToBag(written)

save_chat_hashes_drops(file, written) == file

\* open(..., 'a'): the lines written before a failure stay in the file
save_chat_hashes(file, written) == file (+) SetToBag(written)

IsKnownNever(k, known) == FALSE

IsKnown(k, known) == k \in known

OnlyNewElement(harvest_so_far, h, known) ==
    LET Result(st) ==
            IF Skipped(h) THEN st
            ELSE IF IsKnown(HashOf(h), known) THEN st
                 ELSE [Store(st, h) EXCEPT !.new = st.new \cup {HashOf(h)}]
    IN  Once({Result(st) : st \in {harvest_so_far}})

RECURSIVE OnlyNewAll(_, _, _)
OnlyNewAll(msgs, st, known) ==
    IF msgs = <<>> THEN st ELSE OnlyNewAll(Tail(msgs), OnlyNewElement(st, Head(msgs), known), known)

(***************************************************************************)
(* The session: the chats selected in process_all_chats, lines 1384-1408   *)
(***************************************************************************)
Modes == {"full", "onlynew"}

ChatNames == {"c1", "c2"}

Chat(name, kind, m) == [name |-> name, kind |-> kind, mode |-> m]

\* one run of one conversation, under every port
SingleChats == {<<Chat("c1", k, m)>> : k \in PortKinds, m \in Modes}

BriefChats == {Chat(n, "brief", m) : n \in ChatNames, m \in Modes}

\* several runs in a row, of the same or of different conversations
Batches == UNION {[1..n -> BriefChats] : n \in 2..MaxChats}

GalleryChats == {Chat(n, "gallery", "full") : n \in ChatNames}

\* several conversations with pictures in a row
GalleryBatches == UNION {[1..n -> GalleryChats] : n \in 2..MaxChats}

SelectedChats == SingleChats \cup Batches \cup GalleryBatches

\* except Exception of line 1219: the caller gets the empty list
extract_messages_from_chat(raised, all_messages) ==
    IF raised THEN <<>> ELSE all_messages

save_chat_data_drops(messages, io_raises) == [raised |-> FALSE, saved |-> FALSE]

\* lines 1431-1459: nothing is written for an empty list, and a write may raise
save_chat_data(messages, io_raises) ==
    IF messages = <<>> THEN [raised |-> FALSE, saved |-> FALSE]
    ELSE IF io_raises THEN [raised |-> TRUE, saved |-> FALSE]
    ELSE [raised |-> FALSE, saved |-> TRUE]

\* the line process_all_chats prints for the chat: 1404 or 1406
ReportOf(raised) == IF raised THEN "error" ELSE "processed"

LogEntry(index, name, handed, messages, saved, report) ==
    [index |-> index, name |-> name, handed |-> handed, messages |-> messages,
     saved |-> saved, report |-> report]

Faults(p) == IF FaultMayHappen(p) THEN BOOLEAN ELSE {FALSE}

SaveFaults(p) == IF SaveMayFail(p) THEN BOOLEAN ELSE {FALSE}

OpenOutcomes(p) ==
    IF FaultMayHappen(p) THEN {"ok", "click_raises", "no_container"} ELSE {"ok"}

(***************************************************************************)
(* Initial state: the collector as constructed, lines 155-168              *)
(***************************************************************************)
InitialPorts == {Port(k, <<>>, 0) : k \in PortKinds}

\* the hash file left by earlier runs; a full run starts from one sample file
HashFiles(m) ==
    IF m = "full" THEN {SetToBag({HashOf(hA)})}
    ELSE {EmptyBag, SetToBag({HashOf(hA)}), SetToBag({HashOf(hA), HashOf(hL1)})}

\* one hash file per conversation
InitialFiles(selected) ==
    {[n \in ChatNames |-> IF n = selected[1].name THEN f ELSE EmptyBag] :
        f \in IF Len(selected) = 1 THEN HashFiles(selected[1].mode)
              ELSE IF selected[1].mode = "onlynew" THEN {EmptyBag}
              ELSE {SetToBag({HashOf(hA)})}}

NoFailure == [read |-> FALSE, write |-> FALSE]

NoRun == [recorded |-> FALSE, listing |-> <<>>, store_ok |-> FALSE]

\* download_images of __init__, True by default
DownloadChoices(selected) ==
    IF Len(selected) = 1 /\ selected[1].kind \in {"brief", "gallery"}
    THEN BOOLEAN ELSE {TRUE}

Init ==
    /\ chats \in SelectedChats
    /\ chat_index = 1
    /\ chat_data = <<>>
    /\ run_log = <<>>
    /\ loop_fault = FALSE
    /\ store_failed = NoFailure
    /\ download_images \in DownloadChoices(chats)
    /\ downloaded_images = {}
    /\ current_chat_name = "Unknown"
    /\ fetches = <<>>
    /\ image_extractions = <<>>
    /\ mode = chats[1].mode
    /\ port \in InitialPorts
    /\ port.kind = chats[1].kind
    /\ hash_file \in InitialFiles(chats)
    /\ pc = IF mode = "full" THEN "open" ELSE "start"
    /\ accumulated_messages = <<>>
    /\ message_hashes = {}
    /\ scroll_attempts = 0
    /\ consecutive_no_new_messages = 0
    /\ current_messages = <<>>
    /\ newly_found = 0
    /\ known_hashes = {}
    /\ new_hashes = {}
    /\ final_messages = <<>>
    /\ returned = 0
    /\ harvest_rounds = 0
    /\ reveal_calls = 0
    /\ every_round_new = TRUE
    /\ last_call = "none"
    /\ previous_run = NoRun

\* the browser after a listing: a fixed view stays what it first showed, an
\* endless history has issued one more message
PortAfter(p, elems) ==
    CASE p.kind = "endless" /\ elems # <<>> -> [p EXCEPT !.issued = p.issued + 1]
      [] p.kind = "fixed" -> [p EXCEPT !.listing = elems]
      [] OTHER -> p

chat_name == chats[chat_index].name

NextIndexBreaks(i, n, raised) == IF raised THEN n + 1 ELSE i + 1

\* the item the for loop of line 1387 takes after item i of n: the handler of
\* line 1405 ends with continue
NextIndex(i, n, raised) == i + 1

\* the loop takes its next item or ends; the locals of the run that has
\* returned are gone
NextChat(raised) ==
    /\ LET j == NextIndex(chat_index, Len(chats), raised)
       IN  IF j <= Len(chats)
           THEN /\ chat_index' = j
                /\ mode' = chats[j].mode
                /\ port' = Port(chats[j].kind, <<>>, 0)
                /\ pc' = IF chats[j].mode = "full" THEN "open" ELSE "start"
           ELSE /\ pc' = "batch_done"
                /\ UNCHANGED <<chat_index, mode, port>>
    /\ scroll_attempts' = 0
    /\ consecutive_no_new_messages' = 0
    /\ current_messages' = <<>>
    /\ newly_found' = 0
    /\ known_hashes' = {}
    /\ new_hashes' = {}
    /\ final_messages' = <<>>
    /\ returned' = 0
    /\ harvest_rounds' = 0
    /\ reveal_calls' = 0
    /\ every_round_new' = TRUE
    /\ last_call' = "none"
    /\ loop_fault' = FALSE
    /\ store_failed' = NoFailure
    /\ image_extractions' = <<>>
    /\ previous_run' =
           IF /\ chat_index < Len(chats)
              /\ mode = "onlynew" /\ pc = "done"
              /\ chats[chat_index + 1] = chats[chat_index]
           THEN [recorded |-> TRUE, listing |-> current_messages,
                 store_ok |-> ~store_failed.read /\ ~store_failed.write]
           ELSE NoRun
    /\ UNCHANGED <<chats, download_images, image_vars, current_chat_name>>

(***************************************************************************)
(* The batch loop of process_all_chats                                     *)
(***************************************************************************)
\* lines 1394 and 1190-1212: the click on the chat, then the container lookup
OpenChat ==
    /\ pc = "open"
    /\ mode = "full"
    /\ \E outcome \in OpenOutcomes(port) :
        IF outcome = "click_raises"
        THEN /\ run_log' = Append(run_log,
                     LogEntry(chat_index, chat_name, FALSE, <<>>, FALSE, ReportOf(TRUE)))
             /\ NextChat(TRUE)
             /\ UNCHANGED <<chat_data, accumulated_messages, message_hashes, hash_file>>
        ELSE /\ pc' = IF outcome = "no_container" THEN "aborted" ELSE "start"
             /\ current_chat_name' = chat_name
             /\ UNCHANGED <<batch_vars, image_vars, loop_fault, store_failed, image_extractions,
                            mode, port,
                            accumulated_messages, message_hashes, scroll_attempts,
                            consecutive_no_new_messages, current_messages, newly_found,
                            known_hashes, new_hashes, hash_file, final_messages, returned,
                            harvest_rounds, reveal_calls, every_round_new, last_call>>

\* lines 1214-1221 and 1399-1407: the result of the run is added to chat_data
\* and handed to save_chat_data, and the chat is reported
SaveChat ==
    /\ pc \in {"done", "aborted"}
    /\ mode = "full"
    /\ LET messages == extract_messages_from_chat(pc = "aborted", final_messages)
       IN  \E io_raises \in SaveFaults(port) :
             LET saving == save_chat_data(messages, io_raises)
             IN  /\ chat_data' = chat_data \o messages
                 /\ run_log' = Append(run_log,
                        LogEntry(chat_index, chat_name, TRUE, messages, saving.saved,
                                 ReportOf(saving.raised)))
                 /\ NextChat(saving.raised)
    /\ UNCHANGED <<accumulated_messages, message_hashes, hash_file>>

\* the only-new method has returned to its caller
ReturnOnlyNew ==
    /\ pc = "done"
    /\ mode = "onlynew"
    /\ NextChat(FALSE)
    /\ UNCHANGED <<chat_data, run_log, accumulated_messages, message_hashes, hash_file>>

(***************************************************************************)
(* Full-accumulation mode                                                  *)
(***************************************************************************)
\* lines 850-856
StartFull ==
    /\ pc = "start"
    /\ mode = "full"
    /\ accumulated_messages' = clear(accumulated_messages)
    /\ message_hashes' = {}
    /\ scroll_attempts' = 0
    /\ consecutive_no_new_messages' = 0
    /\ pc' = "harvest"
    /\ UNCHANGED <<batch_vars, image_vars, current_chat_name, loop_fault, store_failed,
                   image_extractions, mode, port,
                   current_messages,
                   newly_found, known_hashes, new_hashes,
                   hash_file, final_messages, returned, harvest_rounds, reveal_calls,
                   every_round_new, last_call>>

\* lines 860-870: one harvest and the convergence check; the statement of
\* line 862 may raise, and nothing in the loop handles that
Harvest ==
    /\ pc = "harvest"
    /\ \E raw \in RawListings(port, harvest_rounds), fault \in Faults(port) :
      \E answers \in AnswerChoices(get_current_messages(raw).messages) :
        LET got == get_current_messages(raw)
            st == extract_and_accumulate_current_messages(
                      got.messages, accumulated_messages, message_hashes, chat_name,
                      answers)
            c == NextConsecutive(consecutive_no_new_messages, st.n)
        IN  /\ port' = PortAfter(port, raw.elems)
            /\ last_call' = IF raw.raises THEN "list_raised" ELSE "list_ok"
            /\ harvest_rounds' = harvest_rounds + 1
            /\ IF got.raised
               THEN /\ pc' = "aborted"
                    /\ UNCHANGED <<accumulated_messages, message_hashes, current_messages,
                                   newly_found, consecutive_no_new_messages,
                                   every_round_new, loop_fault, image_extractions,
                                   image_vars>>
               ELSE /\ current_messages' = got.messages
                    /\ accumulated_messages' = st.acc
                    /\ message_hashes' = st.hashes
                    /\ downloaded_images' = st.cache
                    /\ fetches' = fetches \o st.fetched
                    /\ image_extractions' = image_extractions \o st.extracted
                    /\ newly_found' = st.n
                    /\ every_round_new' = (every_round_new /\ st.n > 0)
                    /\ loop_fault' = fault
                    /\ IF fault
                       THEN /\ pc' = "aborted"
                            /\ UNCHANGED consecutive_no_new_messages
                       ELSE /\ consecutive_no_new_messages' = c
                            /\ pc' = NextStep(c, st.n)
    /\ UNCHANGED <<batch_vars, current_chat_name, store_failed, mode, scroll_attempts, known_hashes,
                   new_hashes, hash_file, final_messages, returned, reveal_calls>>

\* lines 871-873 and the loop test of line 859
Reveal ==
    /\ pc = "reveal"
    /\ \E outcome \in ScrollChoices(port) :
        LET r == perform_enhanced_scroll_strategies(outcome)
        IN  /\ last_call' = IF outcome.raises THEN "scroll_raised" ELSE "scroll_ok"
            /\ reveal_calls' = reveal_calls + 1
            /\ IF r.raised
               THEN /\ pc' = "aborted"
                    /\ UNCHANGED scroll_attempts
               ELSE /\ scroll_attempts' = NextAttempts(scroll_attempts)
                    /\ pc' = IF LoopContinues(scroll_attempts') THEN "harvest" ELSE "final"
    /\ current_messages' = <<>>
    /\ UNCHANGED <<batch_vars, image_vars, current_chat_name, loop_fault, store_failed,
                   image_extractions, mode, port,
                   accumulated_messages, message_hashes,
                   consecutive_no_new_messages, newly_found, known_hashes, new_hashes,
                   hash_file, final_messages, returned, harvest_rounds, every_round_new>>

\* lines 875-879: the records are numbered in place and returned as a list
Finalize ==
    /\ pc = "final"
    /\ accumulated_messages' = Number(accumulated_messages)
    /\ final_messages' = Number(values(accumulated_messages))
    /\ pc' = "done"
    /\ UNCHANGED <<batch_vars, image_vars, current_chat_name, loop_fault, store_failed,
                   image_extractions, mode, port,
                   message_hashes,
                   scroll_attempts,
                   consecutive_no_new_messages, current_messages, newly_found,
                   known_hashes, new_hashes, hash_file, returned, harvest_rounds,
                   reveal_calls, every_round_new, last_call>>

(***************************************************************************)
(* Only-new mode                                                           *)
(***************************************************************************)
\* lines 60-63
StartOnlyNew ==
    /\ pc = "start"
    /\ mode = "onlynew"
    /\ \E read_ok \in BOOLEAN :
          /\ known_hashes' = load_chat_hashes(hash_file[chat_name], read_ok)
          /\ store_failed' = [store_failed EXCEPT !.read = ~read_ok]
    /\ accumulated_messages' = clear(accumulated_messages)
    /\ message_hashes' = {}
    /\ pc' = "harvest_new"
    /\ UNCHANGED <<batch_vars, image_vars, current_chat_name, loop_fault,
                   image_extractions, mode, port, scroll_attempts,
                   consecutive_no_new_messages,
                   current_messages, newly_found, new_hashes, hash_file, final_messages,
                   returned, harvest_rounds, reveal_calls, every_round_new, last_call>>

HashesToSaveAll(known, new) == known \cup new

\* line 118: the set handed to save_chat_hashes
HashesToSave(known, new) == new

\* what reaches the file: all the lines, or those written before the failure
Written(new, write_ok) == IF write_ok THEN {new} ELSE SUBSET new

\* lines 64-120: the single harvest, the append to the hash file, the return
HarvestOnlyNew ==
    /\ pc = "harvest_new"
    /\ \E raw \in RawListings(port, harvest_rounds) :
      \E answers \in AnswerChoices(get_current_messages(raw).messages) :
        LET got == get_current_messages(raw)
            st == OnlyNewAll(got.messages,
                             HarvestState(accumulated_messages, {}, chat_name, answers),
                             known_hashes)
        IN  /\ port' = PortAfter(port, raw.elems)
            /\ last_call' = IF raw.raises THEN "list_raised" ELSE "list_ok"
            /\ harvest_rounds' = harvest_rounds + 1
            /\ IF got.raised
               THEN /\ pc' = "aborted"
                    /\ UNCHANGED <<accumulated_messages, current_messages, newly_found,
                                   new_hashes, hash_file, returned, every_round_new,
                                   store_failed, image_extractions, image_vars>>
               ELSE /\ current_messages' = got.messages
                    /\ accumulated_messages' = st.acc
                    /\ downloaded_images' = st.cache
                    /\ fetches' = fetches \o st.fetched
                    /\ image_extractions' = image_extractions \o st.extracted
                    /\ newly_found' = st.n
                    /\ new_hashes' = st.new
                    /\ every_round_new' = (every_round_new /\ st.n > 0)
                    /\ \E write_ok \in BOOLEAN :
                         \E written \in Written(HashesToSave(known_hashes, st.new),
                                                 write_ok) :
                           /\ hash_file' = [hash_file EXCEPT ![chat_name] =
                                               save_chat_hashes(@, written)]
                           /\ store_failed' = [store_failed EXCEPT !.write = ~write_ok]
                    /\ returned' = st.n
                    /\ pc' = "done"
    /\ UNCHANGED <<batch_vars, current_chat_name, loop_fault, mode, message_hashes, scroll_attempts,
                   consecutive_no_new_messages,
                   known_hashes, final_messages, reveal_calls>>

Next ==
    \/ OpenChat
    \/ StartFull
    \/ Harvest
    \/ Reveal
    \/ Finalize
    \/ SaveChat
    \/ StartOnlyNew
    \/ HarvestOnlyNew
    \/ ReturnOnlyNew

Spec == Init /\ [][Next]_vars

FairSpec == Spec /\ WF_vars(Next)

(***************************************************************************)
(* Properties                                                              *)
(***************************************************************************)
Ended == pc \in {"final", "done"}

\* a run of a conversation is under way
Running == pc \in {"start", "harvest", "reveal", "final", "harvest_new"}

\* the state right after a harvest: current_messages is the listing it read
AfterHarvest == last_call \in {"list_ok", "list_raised"}

Positions(msgs) == 1..Len(msgs)

\* the browser has shown one listing of N >= 1 readable, non blank elements
\* with pairwise distinct fingerprints, and shows it at every harvest
SameDistinctListing ==
    /\ mode = "full"
    /\ port.kind = "fixed"
    /\ harvest_rounds >= 1
    /\ Len(port.listing) >= 1
    /\ \A i \in Positions(port.listing) : ~Skipped(port.listing[i])
    /\ \A i, j \in Positions(port.listing) :
           i # j => HashOf(port.listing[i]) # HashOf(port.listing[j])

\* C1: a full-accumulation run over a browser that shows the same N >= 1
\* non blank elements with distinct fingerprints at every harvest, whatever
\* the scrolls do, makes exactly 1 + max_consecutive_no_new = 4 harvests and
\* ends with exactly N accumulated records.
C1_FixedViewConverges ==
    SameDistinctListing =>
        /\ harvest_rounds <= 1 + max_consecutive_no_new
        /\ Ended => /\ harvest_rounds = 1 + max_consecutive_no_new
                    /\ harvest_rounds = 4
                    /\ Len(accumulated_messages) = Len(port.listing)

C1_Witness ==
    /\ SameDistinctListing
    /\ pc = "done"
    /\ Len(port.listing) = MaxListing
    /\ reveal_calls = 3

\* C2: a full-accumulation run in which every harvest inserts at least one
\* new record never makes more than max_scroll_attempts = 100 harvests and
\* stops only after exactly 100 of them.
C2_HardStopAtCeiling ==
    (mode = "full" /\ every_round_new) =>
        /\ harvest_rounds <= max_scroll_attempts
        /\ Ended => harvest_rounds = max_scroll_attempts /\ harvest_rounds = 100

C2_Witness ==
    /\ mode = "full"
    /\ every_round_new
    /\ pc = "done"
    /\ Len(final_messages) = max_scroll_attempts

\* C3: whatever the browser does, a run ends, after at most 100 harvests and
\* at most 100 scroll calls; scroll_attempts never exceeds 100 and
\* consecutive_no_new_messages never exceeds 3.
C3_RunTerminates ==
    /\ [](/\ scroll_attempts <= max_scroll_attempts
          /\ consecutive_no_new_messages <= max_consecutive_no_new
          /\ harvest_rounds <= max_scroll_attempts
          /\ reveal_calls <= max_scroll_attempts)
    /\ Running ~> ~Running

C3_Witness ==
    /\ pc = "done"
    /\ scroll_attempts = max_scroll_attempts
    /\ reveal_calls = max_scroll_attempts
    /\ consecutive_no_new_messages = max_consecutive_no_new - 1

ScenarioNewlyFound == <<2, 1, 0, 0, 0>>

\* C4: in a full-accumulation run a harvest that finds nothing new adds one
\* to consecutive_no_new_messages and a harvest that finds something resets
\* it to 0; the run ends as converged at exactly the harvest that makes the
\* counter reach 3.  For the listings {A,B}, {A,B,C}, {A,B,C}, {A,B,C},
\* {A,B,C} the harvests find 2, 1, 0, 0, 0, the run ends after the fifth and
\* the result is exactly {A, B, C}.
C4_ConvergencePolicy ==
    [][(mode = "full" /\ harvest_rounds' = harvest_rounds + 1 /\ ~loop_fault') =>
          /\ newly_found' = 0 =>
                 consecutive_no_new_messages' = consecutive_no_new_messages + 1
          /\ newly_found' > 0 => consecutive_no_new_messages' = 0
          /\ (pc' = "final") <=> (consecutive_no_new_messages' = max_consecutive_no_new)
          /\ pc' \in {"final", "reveal"}
          /\ port.kind = "scenario" =>
                 /\ harvest_rounds' <= Len(ScenarioNewlyFound)
                 /\ newly_found' = ScenarioNewlyFound[harvest_rounds']
                 /\ (pc' = "final") <=> (harvest_rounds' = 5)
                 /\ pc' = "final" =>
                        Keys(accumulated_messages') = {HashOf(hA), HashOf(hP), HashOf(hL1)}
                        /\ Len(accumulated_messages') = 3]_vars

C4_Witness ==
    /\ mode = "full"
    /\ port.kind = "scenario"
    /\ pc = "done"
    /\ harvest_rounds = 5
    /\ Len(final_messages) = 3

\* C5: in an only-new run no record whose fingerprint is in the known set
\* loaded at the start is ever accumulated, such an element is not counted
\* in the returned number, and its fingerprint is not written to the hash
\* file again.
C5_KnownNeverInserted ==
    [][mode = "onlynew" =>
          /\ Keys(accumulated_messages') \cap known_hashes' = {}
          /\ new_hashes' \cap known_hashes' = {}
          /\ pc' = "done" =>
                 /\ newly_found' = Cardinality({i \in Positions(current_messages') :
                        /\ ~Skipped(current_messages'[i])
                        /\ HashOf(current_messages'[i]) \notin known_hashes'})
                 /\ returned' = newly_found'
                 /\ \A k \in known_hashes' :
                        CopiesIn(k, hash_file'[chat_name]) =
                            CopiesIn(k, hash_file[chat_name])]_vars

C5_Witness ==
    /\ mode = "onlynew"
    /\ pc = "done"
    /\ newly_found = 1
    /\ Len(current_messages) = 2
    /\ \E i \in Positions(current_messages) :
           /\ ~Skipped(current_messages[i])
           /\ HashOf(current_messages[i]) \in known_hashes

HashSeq(acc) == [i \in 1..Len(acc) |-> acc[i].message_hash]

RunResult == IF mode = "full" THEN final_messages ELSE accumulated_messages

TrimsToEmpty(h) ==
    /\ ~ReadText(h).skipped
    /\ \A i \in 1..Len(ReadText(h).text) : ReadText(h).text[i] \in Whitespace

\* C8: in both modes no accumulated record has a content that is empty after
\* trimming, a harvest counts at most the elements of its listing that do not
\* trim to empty, and a listing made only of such elements is an empty round.
C8_BlankNeverInserted ==
    /\ \A i \in 1..Len(accumulated_messages) :
           \E j \in 1..Len(accumulated_messages[i].content) :
               accumulated_messages[i].content[j] \notin Whitespace
    /\ AfterHarvest =>
           /\ newly_found <= Cardinality({i \in Positions(current_messages) :
                                             ~TrimsToEmpty(current_messages[i])})
           /\ (\A i \in Positions(current_messages) : TrimsToEmpty(current_messages[i]))
                  => /\ newly_found = 0
                     /\ (mode = "full" /\ ~loop_fault) =>
                            consecutive_no_new_messages >= 1

C8_Witness ==
    /\ AfterHarvest
    /\ Len(current_messages) = 2
    /\ \A i \in Positions(current_messages) : TrimsToEmpty(current_messages[i])
    /\ Len(accumulated_messages) >= 1
    /\ newly_found = 0

\* author, timestamp and the first PrefixLen characters of the trimmed text
Triple(h) ==
    <<ReadAuthor(h), ReadTimestamp(h), Prefix(strip(ReadText(h).text), PrefixLen)>>

RecordTriple(r) == <<r.author, r.timestamp, Prefix(r.content, PrefixLen)>>

\* C9: two elements with the same author, the same timestamp and trimmed
\* texts that agree on their first 100 characters get the same fingerprint,
\* and a run never stores two records with the same such triple.
C9_FingerprintOfTriple ==
    /\ \A i, j \in Positions(current_messages) :
           (/\ ~Skipped(current_messages[i])
            /\ ~Skipped(current_messages[j])
            /\ Triple(current_messages[i]) = Triple(current_messages[j]))
               => HashOf(current_messages[i]) = HashOf(current_messages[j])
    /\ \A i, j \in 1..Len(accumulated_messages) :
           i # j => RecordTriple(accumulated_messages[i])
                        # RecordTriple(accumulated_messages[j])

C9_Witness ==
    /\ AfterHarvest
    /\ Len(accumulated_messages) = 1
    /\ \E i, j \in Positions(current_messages) :
           /\ current_messages[i] = hL1
           /\ current_messages[j] = hL2

LastEntry(log) == log[Len(log)]

\* the step in which the batch loop hands the result of the run to the export
Exports == Len(run_log') = Len(run_log) + 1 /\ LastEntry(run_log').handed

\* the same records, in the same order, numbered from 0
IsFinalized(messages, acc) ==
    /\ Len(messages) = Len(acc)
    /\ \A i \in 1..Len(messages) :
           /\ messages[i].message_hash = acc[i].message_hash
           /\ messages[i].content = acc[i].content
           /\ messages[i].message_id = i - 1

\* C11: when a run ends because a statement of the run raised, the records
\* accumulated up to that point are numbered and handed to save_chat_data;
\* they are not dropped for an empty list.
C11_PartialResultExported ==
    [][(Exports /\ pc = "aborted" /\ loop_fault) =>
          IsFinalized(LastEntry(run_log').messages, accumulated_messages)]_vars

\* the positions in chats of the chats process_all_chats has attempted
Attempted == {run_log[k].index : k \in 1..Len(run_log)}

BatchChats == {i \in 1..Len(chats) : chats[i].mode = "full"}

\* a chat whose opening, scraping or saving failed
FailedChat(e) == e.report = "error" \/ (e.handed /\ e.messages = <<>>)

\* C12: the chats of a batch are attempted in their order, one after the
\* other; a chat whose click, run or save raised does not keep the later
\* chats from being attempted, and the batch always reaches its end, with
\* every selected chat attempted.
C12_BatchAttemptsEveryChat ==
    /\ [](/\ \A k \in 1..Len(run_log) :
                 /\ run_log[k].index \in BatchChats
                 /\ k > 1 => run_log[k - 1].index < run_log[k].index
          /\ \A i \in BatchChats : i < chat_index => i \in Attempted
          /\ pc = "batch_done" => Attempted = BatchChats)
    /\ <>(pc = "batch_done")

C12_Witness ==
    /\ pc = "batch_done"
    /\ Len(run_log) = MaxChats
    /\ run_log[1].report = "error"
    /\ \A k \in 1..(Len(run_log) - 1) : FailedChat(run_log[k])
    /\ LastEntry(run_log).saved

\* the loop of the run that has returned ended on its while condition
HardStopped == mode = "full" /\ pc = "done" /\ scroll_attempts = max_scroll_attempts

\* the loop of the run that has returned ended on the break of line 868
Converged ==
    /\ mode = "full"
    /\ pc = "done"
    /\ consecutive_no_new_messages >= max_consecutive_no_new

Appended(n, k) == CopiesIn(k, hash_file'[n]) - CopiesIn(k, hash_file[n])

\* the step in which an only-new run ends
OnlyNewEnds == pc = "harvest_new" /\ pc' = "done"

\* every hash that is or was in one of the files
FileHashes(files) == UNION {BagToSet(files[n]) : n \in ChatNames}

\* the hashes of the readable, non blank elements of a listing
Readable(msgs) == {HashOf(msgs[i]) : i \in {j \in Positions(msgs) : ~Skipped(msgs[j])}}

\* the hash file changes only in the last step of an only-new run, and only
\* the one of its chat; a full run inserts what it sees, in the file or not
OnlyOnlyNewWrites ==
    /\ \A n \in ChatNames :
           hash_file'[n] # hash_file[n] => (mode = "onlynew" /\ OnlyNewEnds /\ n = chat_name)
    /\ mode = "full" =>
           /\ hash_file' = hash_file
           /\ known_hashes' = {}
           /\ harvest_rounds' = harvest_rounds + 1 =>
                  Keys(accumulated_messages') =
                      Keys(accumulated_messages) \cup Readable(current_messages')

\* C14 as stated: the hash file is written only by an only-new run, at its
\* end, and what is appended is exactly the set of the fingerprints of the
\* records the run has inserted; a full run neither reads nor changes it.
C14_AppendsExactlyNew ==
    [][/\ OnlyOnlyNewWrites
       /\ OnlyNewEnds =>
              \A k \in FileHashes(hash_file') :
                  Appended(chat_name, k) =
                      IF k \in Keys(accumulated_messages') THEN 1 ELSE 0]_vars

\* C14 amended: as stated when the append succeeds; when it fails, what has
\* been appended is a part of those fingerprints, each at most once.
C14_AppendsNewUnlessFailed ==
    [][/\ OnlyOnlyNewWrites
       /\ OnlyNewEnds =>
              /\ new_hashes' = Keys(accumulated_messages')
              /\ \A k \in FileHashes(hash_file') :
                     /\ Appended(chat_name, k) \in {0, 1}
                     /\ Appended(chat_name, k) = 1 => k \in new_hashes'
                     /\ ~store_failed'.write =>
                            (Appended(chat_name, k) = 1 <=> k \in new_hashes')]_vars

C14_Witness ==
    /\ mode = "onlynew"
    /\ pc = "done"
    /\ ~store_failed.write
    /\ Cardinality(new_hashes) = 2
    /\ \A k \in new_hashes : CopiesIn(k, hash_file[chat_name]) = 1

\* C15: the hash file of a chat only grows: whatever run makes a step, in
\* whatever mode, with the file read or not and the append failed or not,
\* every line that was in the file of any chat is still in it afterwards.
C15_StoreAppendOnly ==
    [][\A n \in ChatNames : \A k \in FileHashes(hash_file) :
           CopiesIn(k, hash_file'[n]) >= CopiesIn(k, hash_file[n])]_vars

C15_Witness ==
    /\ chat_index = 2
    /\ chats[1].name = chat_name
    /\ mode = "onlynew"
    /\ pc = "done"
    /\ store_failed.write
    /\ newly_found = 1
    /\ CopiesIn(HashOf(hA), hash_file[chat_name]) = 2

\* the positions of a listing an only-new run with the known set counts
Counted(msgs, known) ==
    {i \in Positions(msgs) : ~Skipped(msgs[i]) /\ HashOf(msgs[i]) \notin known}

\* C16: an only-new run whose hash file is missing or cannot be read goes on
\* with the empty known set and harvests every readable element it is shown;
\* and whether the append at its end fails or not, the run returns, with the
\* same accumulated records and the same count.
C16_StoreFailuresNotFatal ==
    [][mode = "onlynew" =>
          /\ pc = "start" =>
                 /\ pc' = "harvest_new"
                 /\ (store_failed'.read \/ hash_file[chat_name] = EmptyBag)
                        => known_hashes' = {}
          /\ pc = "harvest_new" =>
                 /\ pc' = "done"
                 /\ returned' = Cardinality(Counted(current_messages', known_hashes))
                 /\ Keys(accumulated_messages') =
                        Readable(current_messages') \ known_hashes
                 /\ store_failed.read =>
                        Keys(accumulated_messages') = Readable(current_messages')]_vars

C16_Witness ==
    /\ mode = "onlynew"
    /\ pc = "done"
    /\ store_failed.read
    /\ store_failed.write
    /\ returned = 2
    /\ Len(accumulated_messages) = 2
    /\ BagToSet(hash_file[chat_name]) = {HashOf(hA), HashOf(hL1)}
    /\ BagCardinality(hash_file[chat_name]) = 2

\* the step with which a run of either mode begins
RunStarts == pc = "start" /\ pc' \in {"harvest", "harvest_new"}

\* a run has begun and has not yet been handed over to its caller
InRun == pc \in {"harvest", "reveal", "final", "done", "harvest_new"}

\* C17: every run, in either mode, begins with accumulated_messages and
\* message_hashes empty, whatever the run before has left in them; what a run
\* accumulates is what it has been shown, under the name of its own chat; and
\* no step, the clearing included, changes a list already returned: the
\* entries of run_log and the records already in chat_data stay as they are.
C17_RunStartsEmpty ==
    [][/\ RunStarts =>
              /\ accumulated_messages' = <<>>
              /\ message_hashes' = {}
       /\ (harvest_rounds = 0 /\ harvest_rounds' = 1) =>
              Keys(accumulated_messages') \subseteq Readable(current_messages')
       /\ InRun' =>
              \A i \in 1..Len(accumulated_messages') :
                  accumulated_messages'[i].chat_name = chat_name'
       /\ \A k \in 1..Len(run_log) :
              /\ Len(run_log') >= k
              /\ run_log'[k] = run_log[k]
              /\ \A i \in 1..Len(run_log[k].messages) :
                     run_log[k].messages[i].chat_name = run_log[k].name
       /\ Len(chat_data') >= Len(chat_data)
       /\ SubSeq(chat_data', 1, Len(chat_data)) = chat_data]_vars

C17_Witness ==
    /\ chat_index = 2
    /\ pc \in {"harvest", "harvest_new"}
    /\ harvest_rounds = 0
    /\ accumulated_messages = <<>>
    /\ message_hashes = {}
    /\ Len(run_log) = 1
    /\ Len(run_log[1].messages) = 1
    /\ chat_data = run_log[1].messages

\* a step that makes one harvest, in either mode
Harvests == harvest_rounds' = harvest_rounds + 1

\* C18: within a run the number of accumulated records never decreases, and
\* the number a harvest returns, in either mode, is the number of records it
\* has inserted, hence at most the number of distinct fingerprints of its
\* listing that were not accumulated before, also when two elements of the
\* listing have the same fingerprint.
C18_CountIsGrowth ==
    [][/\ (InRun /\ InRun') => Len(accumulated_messages') >= Len(accumulated_messages)
       /\ Harvests =>
              /\ newly_found' = Len(accumulated_messages') - Len(accumulated_messages)
              /\ newly_found' <= Cardinality(Readable(current_messages')
                                                \ Keys(accumulated_messages))]_vars

\* the first element of a listing that has the fingerprint k
FirstWith(msgs, k) ==
    msgs[CHOOSE i \in Positions(msgs) :
            /\ ~Skipped(msgs[i]) /\ HashOf(msgs[i]) = k
            /\ \A j \in 1..(i - 1) : Skipped(msgs[j]) \/ HashOf(msgs[j]) # k]

NoDuplicates(seq) == \A i, j \in 1..Len(seq) : i # j => seq[i] # seq[j]

\* C19: in either mode an element whose fingerprint is already accumulated,
\* from an earlier harvest or from earlier in the same listing, neither
\* replaces nor changes the stored record and has its images and attachments
\* extracted no second time: until the records are numbered each one is what
\* the first element with its fingerprint gave.
C19_FirstSightOnly ==
    [][InRun' =>
          /\ NoDuplicates(image_extractions')
          /\ (InRun /\ pc' # "done") =>
                 \A i \in 1..Len(accumulated_messages) :
                     /\ Len(accumulated_messages') >= i
                     /\ accumulated_messages'[i] = accumulated_messages[i]
          /\ Harvests =>
                 \A i \in (Len(accumulated_messages) + 1)..Len(accumulated_messages') :
                     [accumulated_messages'[i] EXCEPT !.images = <<>>] =
                         message_data(FirstWith(current_messages',
                                                accumulated_messages'[i].message_hash),
                                      chat_name)]_vars

\* a step that makes one call of perform_enhanced_scroll_strategies
Reveals == reveal_calls' = reveal_calls + 1

\* C20: within a run harvests and scroll calls alternate strictly, and the
\* first of them is a harvest: a harvest comes first or right after a scroll
\* call, a scroll call comes right after a harvest, never two of a kind in a
\* row.
C20_HarvestRevealAlternate ==
    [][/\ Harvests =>
              /\ last_call \in {"none", "scroll_ok", "scroll_raised"}
              /\ last_call = "none" <=> harvest_rounds = 0
              /\ reveal_calls = harvest_rounds
              /\ last_call' \in {"list_ok", "list_raised"}
       /\ Reveals =>
              /\ last_call \in {"list_ok", "list_raised"}
              /\ harvest_rounds = reveal_calls + 1
              /\ last_call' \in {"scroll_ok", "scroll_raised"}
       /\ ~(Harvests /\ Reveals)
       /\ (harvest_rounds' # harvest_rounds /\ ~Harvests) => harvest_rounds' = 0
       /\ (reveal_calls' # reveal_calls /\ ~Reveals) => reveal_calls' = 0]_vars

C20_Witness ==
    /\ mode = "full"
    /\ pc = "harvest"
    /\ harvest_rounds = 3
    /\ reveal_calls = 3
    /\ last_call = "scroll_raised"
    /\ Len(accumulated_messages) = 2

\* the fingerprints of a listing that are not in seen, each once, in the
\* order in which the listing first shows them
RECURSIVE FirstSightOrder(_, _)
FirstSightOrder(msgs, seen) ==
    IF msgs = <<>> THEN <<>>
    ELSE IF Skipped(Head(msgs)) \/ HashOf(Head(msgs)) \in seen
         THEN FirstSightOrder(Tail(msgs), seen)
         ELSE <<HashOf(Head(msgs))>>
                  \o FirstSightOrder(Tail(msgs), seen \cup {HashOf(Head(msgs))})

\* C21: the records are kept and returned in first-sight order: a harvest
\* puts its new records behind those of the earlier harvests, in the order in
\* which its listing first shows their fingerprints, no later step moves a
\* record, and the numbering gives index i - 1 to the i-th inserted record,
\* whatever the timestamps are.
C21_FirstSightOrder ==
    [][InRun' =>
          /\ Harvests =>
                 HashSeq(accumulated_messages') =
                     HashSeq(accumulated_messages)
                         \o FirstSightOrder(current_messages',
                                IF mode = "full" THEN Keys(accumulated_messages)
                                ELSE known_hashes)
          /\ (InRun /\ ~Harvests) =>
                 HashSeq(accumulated_messages') = HashSeq(accumulated_messages)
          /\ pc' = "done" /\ mode = "full" =>
                 /\ HashSeq(final_messages') = HashSeq(accumulated_messages)
                 /\ \A i \in 1..Len(final_messages') :
                        final_messages'[i].message_id = i - 1]_vars

\* the record with the later timestamp was inserted first
C21_Witness ==
    /\ mode = "full"
    /\ pc = "done"
    /\ harvest_rounds >= 5
    /\ Len(final_messages) = 2
    /\ final_messages[1].timestamp = <<"2">>
    /\ final_messages[2].timestamp = <<"1">>
    /\ final_messages[1].message_id = 0

\* neither the text of the element nor the text of its <p> child can be read
Unreadable(h) == ReadText(h).skipped

\* the listing as it would be without the elements that cannot be read
RECURSIVE WithoutUnreadable(_)
WithoutUnreadable(msgs) ==
    IF msgs = <<>> THEN <<>>
    ELSE (IF Unreadable(Head(msgs)) THEN <<>> ELSE <<Head(msgs)>>)
             \o WithoutUnreadable(Tail(msgs))

\* C22: an element whose fields cannot be read is skipped and not counted, the
\* other elements of the listing are harvested exactly as if it were not
\* there (same records, same order, same count, in either mode), and the
\* failure ends neither the round nor the run; an element of which only the
\* author or the timestamp is missing is not a failure and is still stored.
C22_UnreadableElementSkipped ==
    [][(Harvests /\ pc' # "aborted") =>
          LET rest == WithoutUnreadable(current_messages')
          IN  /\ mode = "full" =>
                   \E answers \in AnswerChoices(rest) :
                     LET st == extract_and_accumulate_current_messages(
                                   rest, accumulated_messages, message_hashes, chat_name,
                                   answers)
                     IN  /\ accumulated_messages' = st.acc
                         /\ message_hashes' = st.hashes
                         /\ newly_found' = st.n
                         /\ pc' \in {"reveal", "final"}
              /\ mode = "onlynew" =>
                   \E answers \in AnswerChoices(rest) :
                     LET st == OnlyNewAll(rest,
                                   HarvestState(accumulated_messages, {}, chat_name,
                                                answers),
                                   known_hashes)
                     IN  /\ accumulated_messages' = st.acc
                         /\ newly_found' = st.n
                         /\ returned' = st.n
                         /\ pc' = "done"
              /\ newly_found' <= Len(rest)
              /\ \A i \in Positions(current_messages') :
                     Unreadable(current_messages'[i]) =>
                         \A k \in Keys(accumulated_messages') \ Keys(accumulated_messages) :
                             k \in Readable(rest)
              /\ \A i \in Positions(rest) :
                     (mode = "full" /\ ~IsBlank(ReadText(rest[i]).text)) =>
                         HashOf(rest[i]) \in Keys(accumulated_messages')]_vars

\* a harvest has met an unreadable element before a readable one and has
\* stored and counted the readable one, and the run goes on
C22_Witness ==
    /\ mode = "full"
    /\ pc = "reveal"
    /\ current_messages = <<hBad, hA>>
    /\ newly_found = 1
    /\ Len(accumulated_messages) = 1
    /\ accumulated_messages[1].message_hash = HashOf(hA)

\* C25: a full run none of whose harvests has inserted a record returns after
\* exactly 3 harvests and 2 scroll calls, with the empty list and without an
\* error: the first empty harvest already counts as one of the three, nothing
\* is written for the chat and the chat is reported as processed.
C25_EmptyConversation ==
    /\ (mode = "full" /\ pc \in {"reveal", "final", "done"} /\ ~loop_fault
            /\ accumulated_messages = <<>>) =>
           /\ consecutive_no_new_messages = harvest_rounds
           /\ harvest_rounds <= max_consecutive_no_new
    /\ (mode = "full" /\ pc = "done" /\ accumulated_messages = <<>>) =>
           /\ harvest_rounds = 3
           /\ reveal_calls = 2
           /\ scroll_attempts = 2
           /\ final_messages = <<>>
           /\ ~loop_fault
    /\ \A i \in 1..Len(run_log) :
           (run_log[i].handed /\ run_log[i].messages = <<>>) =>
               /\ run_log[i].report = "processed"
               /\ ~run_log[i].saved

\* the run of an empty conversation has returned after its third harvest
C25_Witness ==
    /\ mode = "full"
    /\ port.kind \in {"any", "fixed"}
    /\ pc = "done"
    /\ accumulated_messages = <<>>
    /\ final_messages = <<>>
    /\ harvest_rounds = 3
    /\ reveal_calls = 2
    /\ last_call = "list_ok"

\* C26: a full run whose loop has ended by the break has made one harvest more
\* than scroll calls and its last browser call was a harvest; a run whose
\* loop has ended at the ceiling has made exactly max_scroll_attempts harvests
\* and as many scroll calls, its last browser call was a scroll, and no
\* harvest follows it: what that scroll has brought up is never read.
C26_CallCountsAtTheEnd ==
    [][/\ (mode = "full" /\ pc' \in {"final", "done"} /\ ~loop_fault') =>
             IF consecutive_no_new_messages' >= max_consecutive_no_new
             THEN /\ harvest_rounds' = reveal_calls' + 1
                  /\ last_call' \in {"list_ok", "list_raised"}
                  /\ scroll_attempts' < max_scroll_attempts
             ELSE /\ harvest_rounds' = max_scroll_attempts
                  /\ reveal_calls' = max_scroll_attempts
                  /\ scroll_attempts' = max_scroll_attempts
                  /\ last_call' \in {"scroll_ok", "scroll_raised"}
       /\ (mode = "full" /\ pc \in {"final", "done"}) =>
             (~Harvests /\ ~Reveals)]_vars

\* a run has returned from the ceiling: 100 harvests, 100 scroll calls, the
\* last call a scroll
C26_Witness ==
    /\ HardStopped
    /\ harvest_rounds = max_scroll_attempts
    /\ reveal_calls = max_scroll_attempts
    /\ last_call = "scroll_ok"
    /\ Len(final_messages) > 0

\* C27: what a scroll call reports or raises changes nothing but the browser:
\* whether it was stuck, and whether it failed, the step after it leaves the
\* accumulator, the seen set and the counter of empty harvests as they were,
\* adds one to scroll_attempts and goes to the next harvest, or to the end at
\* the ceiling; and the loop ends after a harvest exactly when that harvest
\* and the ones right before it make max_consecutive_no_new empty harvests in
\* a row. So the end of the run is decided by the counts of the harvests and
\* by the ceiling only.
C27_ScrollOutcomeIgnored ==
    [][/\ Reveals =>
             /\ scroll_attempts' = scroll_attempts + 1
             /\ pc' = IF scroll_attempts + 1 < max_scroll_attempts
                      THEN "harvest" ELSE "final"
             /\ ~loop_fault'
             /\ UNCHANGED <<accumulated_messages, message_hashes,
                            consecutive_no_new_messages, newly_found, harvest_rounds,
                            chat_data, run_log>>
       /\ (Harvests /\ mode = "full" /\ ~loop_fault') =>
             /\ consecutive_no_new_messages' =
                    IF newly_found' = 0 THEN consecutive_no_new_messages + 1 ELSE 0
             /\ pc' = IF consecutive_no_new_messages' >= max_consecutive_no_new
                      THEN "final" ELSE "reveal"
             /\ UNCHANGED scroll_attempts]_vars

\* a run that holds records goes on to its next harvest after a scroll call
\* that failed
C27_Witness ==
    /\ mode = "full"
    /\ pc = "harvest"
    /\ last_call = "scroll_raised"
    /\ reveal_calls >= 2
    /\ Len(accumulated_messages) > 0

\* this step is the harvest of an only-new run that comes right after an
\* only-new run of the same conversation whose read and append of the hash
\* file succeeded, and the browser shows what it showed to that run
SecondRunOverSameListing ==
    /\ mode = "onlynew"
    /\ Harvests
    /\ pc' = "done"
    /\ previous_run.recorded
    /\ previous_run.store_ok
    /\ current_messages' = previous_run.listing

C29_SeparatorCollision ==
    [][/\ Triple(hC1) # Triple(hC2)
       /\ HashOf(hC1) = HashOf(hC2)
       /\ HashOf(hC1) =
              md5(ReadAuthor(hC1) \o <<":">> \o ReadTimestamp(hC1) \o <<":">>
                      \o Prefix(strip(ReadText(hC1).text), PrefixLen))
       /\ (Harvests /\ mode = "full" /\ port.kind = "collision") =>
             /\ Len(accumulated_messages') <= 1
             /\ accumulated_messages # <<>> =>
                    /\ accumulated_messages' = accumulated_messages
                    /\ newly_found' = 0
             /\ (accumulated_messages = <<>> /\ current_messages' # <<>>) =>
                    /\ Len(accumulated_messages') = 1
                    /\ RecordTriple(accumulated_messages'[1]) = Triple(current_messages'[1])
                    /\ newly_found' = 1]_vars

\* a harvest has been shown both elements and has stored the first only
C29_Witness ==
    /\ mode = "full"
    /\ AfterHarvest
    /\ current_messages = <<hC1, hC2>>
    /\ newly_found = 1
    /\ Len(accumulated_messages) = 1
    /\ accumulated_messages[1].author = <<"a", ":", "b">>
    /\ accumulated_messages[1].timestamp = <<"c">>

\* the src values of the images of an element, in the order they are met
Srcs(h) == SelectSeq(h.images, LAMBDA src : src # NoSrc)

\* the records a harvest has stored under fingerprints not accumulated before
NewRecords ==
    {i \in 1..Len(accumulated_messages') :
        accumulated_messages'[i].message_hash \notin Keys(accumulated_messages)}

\* the downloads a step has asked of the network
NewFetches == (Len(fetches) + 1)..Len(fetches')

\* C23: a download that fails during a harvest ends neither the harvest nor
\* the run, and the message is stored all the same: its record has one
\* descriptor for every image of the element that has a src, in order, the
\* one of the failed download with download_status 'failed' and no local
\* path, the others processed after it; and the elements after it in the
\* listing are harvested too.
C23_FailedFetchRecorded ==
    [][(Harvests /\ pc' # "aborted" /\ download_images) =>
          /\ \A i \in NewRecords :
                 LET rec == accumulated_messages'[i]
                     h == FirstWith(current_messages', rec.message_hash)
                 IN  /\ Len(rec.images) = Len(Srcs(h))
                     /\ \A j \in 1..Len(rec.images) :
                            /\ rec.images[j].src = Srcs(h)[j]
                            /\ rec.images[j].download_status =
                                   IF rec.images[j].local_path = NoPath
                                   THEN "failed" ELSE "success"
          /\ \A e \in NewFetches :
                 ~fetches'[e].ok =>
                     \E i \in NewRecords :
                         \E j \in 1..Len(accumulated_messages'[i].images) :
                             LET d == accumulated_messages'[i].images[j]
                             IN  /\ d.src = fetches'[e].url
                                 /\ d.download_status = "failed"
                                 /\ d.local_path = NoPath
          /\ mode = "full" =>
                 /\ Readable(current_messages') \subseteq Keys(accumulated_messages')
                 /\ newly_found' = Cardinality(NewRecords)
          /\ pc' \in {"reveal", "final", "done"}]_vars

\* the first download of the harvest has failed; the message is stored with
\* that descriptor failed, the next image has been downloaded, and the next
\* element of the listing is stored too
C23_Witness ==
    /\ mode = "full"
    /\ AfterHarvest
    /\ Len(fetches) >= 2
    /\ ~fetches[1].ok
    /\ fetches[2].ok
    /\ Len(accumulated_messages) = 2
    /\ accumulated_messages[1].message_hash = HashOf(hPics)
    /\ Len(accumulated_messages[1].images) = 3
    /\ accumulated_messages[1].images[1].download_status = "failed"
    /\ accumulated_messages[1].images[1].local_path = NoPath
    /\ accumulated_messages[1].images[2].download_status = "success"
    /\ accumulated_messages[2].message_hash = HashOf(hA)

\* the descriptors of the records a harvest has newly stored, as pairs
\* <<record, position>>
NewDescriptors ==
    UNION {{<<i, j>> : j \in 1..Len(accumulated_messages'[i].images)} : i \in NewRecords}

Descriptor(p) == accumulated_messages'[p[1]].images[p[2]]

AllRecords(acc, data, log) ==
    {acc[i] : i \in 1..Len(acc)} \cup {data[i] : i \in 1..Len(data)}
        \cup UNION {{log[i].messages[k] : k \in 1..Len(log[i].messages)} : i \in 1..Len(log)}

\* C30: a url whose download has succeeded once in the process is asked of
\* the network no second time, in the same conversation or in a later one:
\* self.downloaded_images holds exactly the urls downloaded so far; every
\* descriptor stored later for such a url, in another message, in a later
\* conversation, or for the same image matched by a second selector, has
\* local_path None and download_status 'failed' though no download has been
\* tried for it; and no stored descriptor has the status 'pending'.
C30_DownloadedOnce ==
    [][/\ \A i, j \in 1..Len(fetches') :
              (i < j /\ fetches'[i].ok) => fetches'[j].url # fetches'[i].url
       /\ downloaded_images' =
              {md5(fetches'[i].url) : i \in {e \in 1..Len(fetches') : fetches'[e].ok}}
       /\ Harvests =>
              \A p \in NewDescriptors :
                  /\ md5(Descriptor(p).src) \in downloaded_images =>
                         /\ Descriptor(p).local_path = NoPath
                         /\ Descriptor(p).download_status = "failed"
                         /\ \A e \in NewFetches : fetches'[e].url # Descriptor(p).src
                  /\ Descriptor(p).download_status = "success" =>
                         /\ md5(Descriptor(p).src) \notin downloaded_images
                         /\ \A q \in NewDescriptors \ {p} :
                                Descriptor(q).src = Descriptor(p).src =>
                                    /\ Descriptor(q).download_status = "failed"
                                    /\ Descriptor(q).local_path = NoPath
       /\ \A r \in AllRecords(accumulated_messages', chat_data', run_log') :
              \A j \in 1..Len(r.images) : r.images[j].download_status # "pending"]_vars

\* in the second conversation the picture downloaded in the first one is
\* stored as failed without a download, next to one that is downloaded now,
\* and the second match of the same picture is stored as failed as well
C30_Witness ==
    /\ chat_index = 2
    /\ AfterHarvest
    /\ \E e \in 1..Len(fetches) :
           fetches[e].chat = 1 /\ fetches[e].url = "u1" /\ fetches[e].ok
    /\ \A e \in 1..Len(fetches) : fetches[e].chat = 2 => fetches[e].url = "u2"
    /\ \E e \in 1..Len(fetches) : fetches[e].chat = 2 /\ fetches[e].ok
    /\ Len(accumulated_messages) = 2
    /\ accumulated_messages[1].images[1] = image_info("u1", NoPath, "failed")
    /\ accumulated_messages[1].images[2].download_status = "success"
    /\ accumulated_messages[1].images[3] = image_info("u1", NoPath, "failed")

\* the urls downloaded in the run of the current conversation
RunCache ==
    {md5(fetches[e].url) : e \in {i \in 1..Len(fetches) :
                                     fetches[i].chat = chat_index /\ fetches[i].ok}}

\* what a harvest of the listing stores and downloads when the collector
\* remembers only the downloads of the current conversation
AloneHarvest(msgs, answers) ==
    LET st == [HarvestState(accumulated_messages, message_hashes, chat_name, answers)
                  EXCEPT !.cache = RunCache]
    IN  IF mode = "full" THEN AccumulateAll(msgs, st)
        ELSE OnlyNewAll(msgs, st, known_hashes)

\* C24: the records of a conversation, the status and the local path of
\* their image descriptors included, are those the collector would produce
\* had it processed no conversation before: every harvest stores the records
\* and asks the downloads that the same listing and the same answers of the
\* network give to a collector that remembers nothing of earlier
\* conversations.
C24_NothingSharedAcrossChats ==
    [][(Harvests /\ pc' # "aborted") =>
          \E answers \in AnswerChoices(current_messages') :
              LET st == AloneHarvest(current_messages', answers)
              IN  /\ accumulated_messages' = st.acc
                  /\ SubSeq(fetches', Len(fetches) + 1, Len(fetches')) = st.fetched]_vars

====
